---- MODULE Spec2Model ----
(***************************************************************************)
(* Batch-ingestion pipeline of image-search-go (test/main.go): directory   *)
(* discovery, dispatcher, worker pool, result collector, canonical storage *)
(* and the vector-store insert call.                                       *)
(***************************************************************************)
EXTENDS Integers, Sequences, FiniteSets, Bags, TLC

-----------------------------------------------------------------------------
(* Bounds of the explored inputs *)

\* longest directory walk (number of callback invocations) explored
MaxEntries == 2
\* largest -batch value explored
MaxBatch == 2
\* largest -workers value explored
MaxWorkers == 2
\* number of I/O or backend faults the environment may inject in one run
MaxFaults == 1
\* longest slice of images handed to BatchExtractFeatures
MaxImages == 2
\* every image of up to MaxSide x MaxSide pixels is explored
MaxSide == 2
\* number of calls that reach the vector store in one server run
MaxRequests == 2

(* Program constants *)

\* capacity of the jobs and results channels
ChanCap == 100

\* a dataset with more batches than a channel holds (batch size 1)
BigFiles == ChanCap + 1

\* a dataset with more batches than both channels and one worker hold
StallFiles == 2 * ChanCap + 2

\* the size ExtractFeatures preprocesses to
ExtractSize == 224

\* PreprocessImage resizes to the crop size plus this margin
CropMargin == 50

\* NewSimpleFeatureExtractor's Dimension
DefaultDimension == 512

\* LoadConfig's default for MILVUS_DIMENSION
DefaultMilvusDimension == 512

\* LoadConfig's default for MAX_FILE_SIZE: 10*1024*1024 bytes
MaxFileSize == 10485760

\* bins per channel of the colour histogram
HistBins == 16

\* the spatial features average over a GridSize x GridSize grid
GridSize == 4

None == "none"

-----------------------------------------------------------------------------
(* utils: image formats *)

SupportedImageTypes == {".jpg", ".jpeg", ".png", ".bmp", ".tiff"}

\* strings.ToLower on the extensions that occur in the model
ToLower(ext) ==
    CASE ext = ".JPG"  -> ".jpg"
      [] ext = ".Jpg"  -> ".jpg"
      [] ext = ".JPEG" -> ".jpeg"
      [] ext = ".PNG"  -> ".png"
      [] ext = ".BMP"  -> ".bmp"
      [] ext = ".TIFF" -> ".tiff"
      [] ext = ".TXT"  -> ".txt"
      [] OTHER         -> ext

\* a comparison of the extension as it is spelled in the file name
IsValidImageFormatCaseSensitive(ext) == ext \in SupportedImageTypes

IsValidImageFormat(ext) == ToLower(ext) \in SupportedImageTypes

\* the format switch of SaveImage: TRUE when an encoder exists for the path
SaveImageEncodable(ext) == ToLower(ext) \in {".jpg", ".jpeg", ".png"}

-----------------------------------------------------------------------------
(* The dataset directory: the sequence of callbacks filepath.Walk makes.   *)
(* err: Walk hands the callback an error for this entry (unreadable root   *)
(* or subdirectory).  content: what decoding / extraction of a file gives. *)

Entry(isDir, ext, err, content) ==
    [isDir |-> isDir, ext |-> ext, err |-> err, content |-> content]

WalkErrEntry == Entry(TRUE, "", TRUE, None)
DirEntry == Entry(TRUE, "", FALSE, None)
File(ext, content) == Entry(FALSE, ext, FALSE, content)
\* a directory whose name ends in an extension
DirNamed(ext) == Entry(TRUE, ext, FALSE, None)

PipelineEntries ==
    { WalkErrEntry,
      File(".jpg", "good"),
      File(".PNG", "corrupt"),
      File(".bmp", "good") }

RECURSIVE SeqsUpTo(_, _)
SeqsUpTo(S, n) ==
    IF n = 0 THEN { <<>> }
    ELSE LET shorter == SeqsUpTo(S, n - 1)
         IN  shorter \cup { Append(s, e) : s \in { t \in shorter : Len(t) = n - 1 }, e \in S }

BigDataset == [k \in 1..BigFiles |-> File(".jpg", "good")]

StallDataset == [k \in 1..StallFiles |-> File(".jpg", "good")]

\* what a walk can meet: directories, also ones named like images, files
\* with supported extensions in several spellings, other files, an error
WalkEntries ==
    { WalkErrEntry, DirEntry, DirNamed(".jpg"),
      File(".JPG", "good"), File(".Jpg", "good"), File(".png", "good"),
      File(".tiff", "good"), File(".txt", "good"), File(".gif", "good") }

-----------------------------------------------------------------------------
VARIABLES
    entries,       \* the dataset tree in walk order (input)
    batchSize,     \* -batch
    maxWorkers,    \* -workers
    faultsLeft,    \* faults the environment may still inject
    pc,            \* position of main / ProcessDataset
    imageFiles,    \* ProcessDataset: discovered paths (indices into entries)
    i,             \* ProcessDataset: dispatch loop index
    jobs,          \* channel of batches
    jobsClosed,
    results,       \* channel of BatchResult
    resultsClosed,
    wg,            \* sync.WaitGroup counter
    wk,            \* worker goroutines: a bag of positions and locals of processBatch
    cpc,           \* position of resultCollector
    totalProcessed,
    totalErrors,
    batchCount,
    finalLog,      \* the final statistics line, once logged (a sequence of 0 or 1 lines)
    storage,       \* files under Server.UploadPath
    milvus,        \* image ids held by the collection
    sent,          \* history: batches sent on jobs, in order
    taken,         \* history: bag of batch ids received by workers
    produced,      \* history: bag of batch ids processBatch returned for
    consumed,      \* history: bag of batch ids whose result was collected
    insertCalls,   \* history: the bag of InsertVectors calls made
    steps,         \* history: number of steps taken by all goroutines together
    images,        \* models/utils: the decoded images handed to a call (input)
    dimension,     \* SimpleFeatureExtractor.Dimension
    made,          \* models/utils: the call made and what it returned (0 or 1)
    env,           \* MILVUS_DIMENSION in the environment: unset (no element) or its characters
    milvusConfig,  \* config.MilvusConfig once LoadConfig ran (0 or 1)
    storeCalls,    \* history: the InsertVectors / SearchSimilar calls with their vectors
    responses      \* history: the responses of the upload and delete handlers, in order

vars == << entries, batchSize, maxWorkers, faultsLeft, pc, imageFiles, i,
           jobs, jobsClosed, results, resultsClosed, wg, wk, cpc,
           totalProcessed, totalErrors, batchCount, finalLog, storage, milvus,
           sent, taken, produced, consumed, insertCalls, steps,
           images, dimension, made, env, milvusConfig, storeCalls, responses >>

pipelineVars == << entries, batchSize, maxWorkers, faultsLeft, pc, imageFiles,
                   i, jobs, jobsClosed, results, resultsClosed, wg, wk, cpc,
                   totalProcessed, totalErrors, batchCount, finalLog, storage,
                   milvus, sent, taken, produced, consumed, insertCalls, steps >>
storeVars == << env, milvusConfig, storeCalls, responses >>
extractorVars == << images, dimension, made, storeVars >>

inputVars == << entries, batchSize, maxWorkers >>
collectorVars == << cpc, totalProcessed, totalErrors, batchCount, finalLog >>
historyVars == << sent, taken, produced, consumed, insertCalls >>

-----------------------------------------------------------------------------
(* config: LoadConfig reads MILVUS_DIMENSION with getEnvAsInt *)

Digits == {"0", "1", "2", "3", "4", "5", "6", "7", "8", "9"}

DigitValue(c) ==
    CASE c = "0" -> 0 [] c = "1" -> 1 [] c = "2" -> 2 [] c = "3" -> 3
      [] c = "4" -> 4 [] c = "5" -> 5 [] c = "6" -> 6 [] c = "7" -> 7
      [] c = "8" -> 8 [] OTHER   -> 9

\* the number written by a sequence of digits
RECURSIVE DecimalValue(_)
DecimalValue(str) ==
    IF str = << >> THEN 0
    ELSE 10 * DecimalValue(SubSeq(str, 1, Len(str) - 1)) + DigitValue(str[Len(str)])

\* strconv.Atoi: an optional sign followed by one or more digits
Atoi(str) ==
    LET signed == str # << >> /\ str[1] \in {"+", "-"}
        digits == IF signed THEN Tail(str) ELSE str
    IN  IF digits = << >> \/ \E n \in 1..Len(digits) : digits[n] \notin Digits
        THEN [err |-> TRUE, value |-> 0]
        ELSE [err |-> FALSE,
              value |-> IF signed /\ str[1] = "-" THEN 0 - DecimalValue(digits)
                        ELSE DecimalValue(digits)]

\* getEnvAsInt: the variable's value when it is set and Atoi accepts it,
\* otherwise the default
getEnvAsInt(value, defaultValue) ==
    IF value # << >> /\ ~Atoi(value[1]).err THEN Atoi(value[1]).value
    ELSE defaultValue

\* LoadConfig: the Milvus part of the configuration
LoadConfig(value) == [Dimension |-> getEnvAsInt(value, DefaultMilvusDimension)]

-----------------------------------------------------------------------------
(* Initial states *)

InitRun ==
    /\ pc = "discover"
    /\ imageFiles = <<>>
    /\ i = 0
    /\ jobs = <<>>
    /\ jobsClosed = FALSE
    /\ results = <<>>
    /\ resultsClosed = FALSE
    /\ wg = 0
    /\ wk = EmptyBag
    /\ cpc = None
    /\ totalProcessed = 0
    /\ totalErrors = 0
    /\ batchCount = 0
    /\ finalLog = <<>>
    /\ storage = {}
    /\ milvus = {}
    /\ sent = <<>>
    /\ taken = EmptyBag
    /\ produced = EmptyBag
    /\ consumed = EmptyBag
    /\ insertCalls = EmptyBag
    /\ steps = 0
    /\ made = << >>

InitSmall ==
    /\ entries \in SeqsUpTo(PipelineEntries, MaxEntries)
    /\ batchSize \in 1..MaxBatch
    /\ maxWorkers \in 1..MaxWorkers
    /\ faultsLeft = MaxFaults

InitBig ==
    /\ entries = BigDataset
    /\ batchSize = 1
    /\ maxWorkers = 1
    /\ faultsLeft = 0

\* inputs of the runs checked under fair scheduling
LiveEntries == { File(".jpg", "good"), File(".PNG", "corrupt") }

InitLive ==
    /\ entries \in SeqsUpTo(LiveEntries, MaxEntries)
    /\ batchSize \in 1..MaxBatch
    /\ maxWorkers \in 1..MaxWorkers
    /\ faultsLeft = MaxFaults

InitStall ==
    /\ entries = StallDataset
    /\ batchSize = 1
    /\ maxWorkers = 1
    /\ faultsLeft = 0

\* the flags as flag.Int parses them: main passes them on unchecked
InitFlags ==
    /\ entries \in SeqsUpTo(PipelineEntries, MaxEntries)
    /\ batchSize \in -1..MaxBatch
    /\ maxWorkers \in -1..MaxWorkers
    /\ faultsLeft = 0

InitWalk ==
    /\ entries \in SeqsUpTo(WalkEntries, MaxEntries)
    /\ batchSize = 1
    /\ maxWorkers = 1
    /\ faultsLeft = 0

\* the configuration loaded with MILVUS_DIMENSION unset, no store call made
InitDefaultConfig ==
    /\ env = << >>
    /\ milvusConfig = << LoadConfig(env) >>
    /\ storeCalls = << >>
    /\ responses = << >>

\* the batch inserter with its extractor, before any image is decoded
InitNoImages ==
    /\ images = << >>
    /\ dimension = DefaultDimension
    /\ InitDefaultConfig

Init == InitSmall /\ InitNoImages /\ InitRun

InitFair == InitLive /\ InitNoImages /\ InitRun

InitOverCap == (InitLive \/ InitBig) /\ InitNoImages /\ InitRun

InitBackpressure == (InitLive \/ InitStall) /\ InitNoImages /\ InitRun

InitDiscovery == InitWalk /\ InitNoImages /\ InitRun

InitAnyFlags == InitFlags /\ InitNoImages /\ InitRun

-----------------------------------------------------------------------------
(* findImageFiles: the Walk callback appends every non-directory entry with *)
(* a supported extension; the first entry reported with an error stops the *)
(* walk and the error is returned with the files appended so far.          *)

\* the first callback that receives an error (Len + 1 when there is none)
WalkStop(tree) ==
    IF \E k \in 1..Len(tree) : tree[k].err
    THEN CHOOSE k \in 1..Len(tree) : tree[k].err /\ \A j \in 1..(k - 1) : ~tree[j].err
    ELSE Len(tree) + 1

\* the callback's filter: !info.IsDir() && utils.IsValidImageFormat(info.Name())
WalkKeeps(e) == ~e.isDir /\ IsValidImageFormat(e.ext)

Walk(tree) ==
    LET stop    == WalkStop(tree)
        visited == [k \in 1..(stop - 1) |-> k]
    IN  [files |-> SelectSeq(visited, LAMBDA k : WalkKeeps(tree[k])),
         err   |-> stop <= Len(tree)]

findImageFiles(tree) == Walk(tree)

-----------------------------------------------------------------------------
(* ProcessDataset *)

\* the process is alive: it has neither exited nor panicked
Running == pc \notin {"exited", "fatal", "panic"}

\* AfterDiscovery with the error of the walk ignored
AfterDiscoveryIgnoringErr(r) == "start"

\* if err != nil { return fmt.Errorf(...) }
AfterDiscovery(r) == IF r.err THEN "failed" ELSE "start"

\* totalBatches := (len(imageFiles) + batchSize - 1) / batchSize
TotalBatches(n, b) == (n + b - 1) \div b

\* BatchEnd without the clamp to len(imageFiles)
BatchEndUnclamped(idx, b, n) == idx + b

\* end := i + batchSize; if end > len(imageFiles) { end = len(imageFiles) }
BatchEnd(idx, b, n) == IF idx + b > n THEN n ELSE idx + b

\* batch := imageFiles[i:end], a slice: the half-open index range [lo, hi)
Slice(lo, hi) == [lo |-> lo, hi |-> hi]

BatchLen(batch) == batch.hi - batch.lo

\* the path at position p (0-based) of a batch
BatchItem(batch, p) == imageFiles[batch.lo + p + 1]

\* the dispatch index of a batch; stands for the batch's uuid prefix BatchID
BatchIdOf(batch) == batch.lo \div batchSize

\* a Wait that does not wait
WaitReturnsAtOnce(n) == TRUE

\* wg.Wait() returns
WaitReturns(n) == n = 0

\* a worker that returns without wg.Done()
WgDoneMissing(n) == n

\* defer wg.Done()
WgDone(n) == n - 1

IdleWorker ==
    [pc |-> "recv", batch |-> Slice(0, 0), pos |-> 0, imageIDs |-> <<>>,
     vectors |-> <<>>, successCount |-> 0, errorCount |-> 0, result |-> <<>>]

Discover ==
    /\ pc = "discover"
    /\ LET r == findImageFiles(entries)
       IN  /\ imageFiles' = r.files
           /\ pc' = AfterDiscovery(r)
    /\ steps' = steps + 1
    /\ UNCHANGED << inputVars, extractorVars, faultsLeft, i, jobs, jobsClosed, results,
                    resultsClosed, wg, wk, collectorVars, storage, milvus,
                    historyVars >>

\* a pool with one worker more than asked for
StartWorkersOneMore(n) == [w \in {IdleWorker} |-> n + 1]

\* for i := 0; i < maxWorkers; i++ { wg.Add(1); go bi.worker(...) }: the
\* loop body does not run for maxWorkers <= 0
StartWorkers(n) == IF n > 0 THEN [w \in {IdleWorker} |-> n] ELSE EmptyBag

\* the WaitGroup counter after the loop: one wg.Add(1) per worker started
WgAdded(n) == IF n > 0 THEN n ELSE 0

\* totalBatches := (len(imageFiles) + batchSize - 1) / batchSize: an
\* integer division, which panics for batchSize = 0
AfterStart(b) == IF b = 0 THEN "panic" ELSE "dispatch"

\* make both channels, start maxWorkers workers and the collector, compute
\* totalBatches
StartPool ==
    /\ pc = "start"
    /\ wk' = StartWorkers(maxWorkers)
    /\ wg' = WgAdded(maxWorkers)
    /\ cpc' = "recv"
    /\ i' = 0
    /\ pc' = AfterStart(batchSize)
    /\ steps' = steps + 1
    /\ UNCHANGED << inputVars, extractorVars, faultsLeft, imageFiles, jobs, jobsClosed,
                    results, resultsClosed, totalProcessed, totalErrors,
                    batchCount, finalLog, storage, milvus, historyVars >>

\* a channel whose send never waits for room
CanSendUnbounded(ch) == TRUE

\* a send on a buffered channel goes through only while the buffer has room
CanSend(ch) == Len(ch) < ChanCap

\* imageFiles[lo:hi] panics when hi is below lo (a negative batchSize)
SliceInRange(batch) == batch.lo <= batch.hi

\* one iteration of the dispatch loop: jobs <- batch
Dispatch ==
    /\ pc = "dispatch"
    /\ i < Len(imageFiles)
    /\ LET batch == Slice(i, BatchEnd(i, batchSize, Len(imageFiles)))
       IN  IF jobsClosed \/ ~SliceInRange(batch)
           THEN /\ pc' = "panic"
                /\ UNCHANGED << jobs, sent, i >>
           ELSE /\ CanSend(jobs)
                /\ jobs' = Append(jobs, batch)
                /\ sent' = Append(sent, batch)
                /\ i' = i + batchSize
                /\ pc' = pc
    /\ steps' = steps + 1
    /\ UNCHANGED << inputVars, extractorVars, faultsLeft, imageFiles, jobsClosed, results,
                    resultsClosed, wg, wk, collectorVars, storage, milvus,
                    taken, produced, consumed, insertCalls >>

\* close(jobs)
CloseJobs ==
    /\ pc = "dispatch"
    /\ ~(i < Len(imageFiles))
    /\ jobsClosed' = TRUE
    /\ pc' = "wait"
    /\ steps' = steps + 1
    /\ UNCHANGED << inputVars, extractorVars, faultsLeft, imageFiles, i, jobs, results,
                    resultsClosed, wg, wk, collectorVars, storage, milvus,
                    historyVars >>

\* wg.Wait(); close(results); return nil
CloseResults ==
    /\ pc = "wait"
    /\ WaitReturns(wg)
    /\ resultsClosed' = TRUE
    /\ pc' = "returned"
    /\ steps' = steps + 1
    /\ UNCHANGED << inputVars, extractorVars, faultsLeft, imageFiles, i, jobs, jobsClosed,
                    results, wg, wk, collectorVars, storage, milvus,
                    historyVars >>

\* main: log.Fatalf on an error, otherwise return; either ends the process
\* and with it every goroutine
Exit ==
    /\ pc \in {"returned", "failed"}
    /\ pc' = IF pc = "returned" THEN "exited" ELSE "fatal"
    /\ steps' = steps + 1
    /\ UNCHANGED << inputVars, extractorVars, faultsLeft, imageFiles, i, jobs, jobsClosed,
                    results, resultsClosed, wg, wk, collectorVars, storage,
                    milvus, historyVars >>

-----------------------------------------------------------------------------
(* processBatch, item by item *)

\* utils.LoadImageFromFile: os.Open + image.Decode
LoadImageFromFile(e) == e.content # "corrupt"

\* featureExtractor.ExtractFeatures through the FeatureExtractor interface.
\* SimpleFeatureExtractor, the implementation NewBatchInserter installs,
\* always returns a nil error; the error branch of processBatch is taken
\* only with another implementation, and is modelled as an outcome "extract"
ExtractOK(o) == o # "extract"

\* the feature vector of a path
Features(path) == [vectorOf |-> path]

\* uuid.New().String(): a fresh id, named after the item it is minted for
NewImageID(path) == path

\* what can happen to an item that was loaded: all goes well, the extractor
\* returns an error, or one of the steps of copyImageFile fails
ItemOutcomes(budget) ==
    {"ok"} \cup (IF budget > 0
                 THEN {"extract", "mkdir", "load", "create", "encode"}
                 ELSE {})

\* utils.SaveImage: os.Create makes the file, then the extension picks the
\* encoder; an unsupported extension or a failed encode returns an error and
\* leaves the created file behind
SaveImage(id, ext, o) ==
    IF o = "create" THEN [err |-> TRUE, files |-> {}]
    ELSE IF SaveImageEncodable(ext) /\ o # "encode"
         THEN [err |-> FALSE, files |-> {[id |-> id, ext |-> ext, complete |-> TRUE]}]
         ELSE [err |-> TRUE,  files |-> {[id |-> id, ext |-> ext, complete |-> FALSE]}]

\* copyImageFile: MkdirAll, decode the source again, SaveImage
copyImageFile(id, ext, o) ==
    IF o \in {"mkdir", "load"} THEN [err |-> TRUE, files |-> {}]
    ELSE SaveImage(id, ext, o)

\* ItemFailed with break in place of continue: the rest of the batch is skipped
ItemFailedBreak(w) ==
    [w EXCEPT !.errorCount = @ + 1, !.pos = w.batch.hi - w.batch.lo]

\* errorCount++; continue
ItemFailed(w) ==
    [w EXCEPT !.errorCount = @ + 1, !.pos = @ + 1]

\* ItemSucceeded putting the new pair in front of the earlier ones
ItemSucceededInFront(w, id, vec) ==
    [w EXCEPT !.imageIDs = << id >> \o @, !.vectors = << vec >> \o @,
              !.successCount = @ + 1, !.pos = @ + 1]

\* imageIDs = append(...); vectors = append(...); successCount++
ItemSucceeded(w, id, vec) ==
    [w EXCEPT !.imageIDs = Append(@, id), !.vectors = Append(@, vec),
              !.successCount = @ + 1, !.pos = @ + 1]

\* InsertFailedResult that reports only the items that failed on their own
InsertFailedResultLocalCount(w, err) ==
    [Success |-> FALSE, ProcessedCount |-> 0, ErrorCount |-> w.errorCount,
     BatchID |-> w.batch.lo \div batchSize, Error |-> err]

\* the BatchResult returned when InsertVectors fails
InsertFailedResult(w, err) ==
    [Success |-> FALSE, ProcessedCount |-> 0, ErrorCount |-> BatchLen(w.batch),
     BatchID |-> BatchIdOf(w.batch), Error |-> err]

\* the BatchResult returned otherwise
BatchDoneResult(w) ==
    [Success |-> TRUE, ProcessedCount |-> w.successCount,
     ErrorCount |-> w.errorCount, BatchID |-> BatchIdOf(w.batch), Error |-> None]

\* faults the backend can show during InsertVectors
InsertOutcomes(budget) ==
    {"ok"} \cup (IF budget > 0 THEN {"insert", "flush"} ELSE {})

\* MilvusService.InsertVectors: length check, client.Insert, client.Flush.
\* stored: the ids client.Insert put into the collection
InsertVectors(ids, vecs, o) ==
    IF Len(ids) # Len(vecs) THEN [err |-> "mismatch", stored |-> {}, backend |-> FALSE]
    ELSE IF o = "insert" THEN [err |-> "insert", stored |-> {}, backend |-> TRUE]
    ELSE IF o = "flush"
         THEN [err |-> "flush", stored |-> {ids[n] : n \in 1..Len(ids)}, backend |-> TRUE]
         ELSE [err |-> None, stored |-> {ids[n] : n \in 1..Len(ids)}, backend |-> TRUE]

\* a worker that stops after a failed batch
AfterSendStopOnFailure(result) == IF result.Success THEN "recv" ELSE "stopped"

\* the worker's loop after results <- result: back to ranging over jobs
AfterSend(result) == "recv"

\* the goroutines are anonymous: the pool is the bag of their states
Workers == BagToSet(wk)

\* the pool after the worker in state w has moved to state v
Moved(w, v) == (wk (-) SetToBag({w})) (+) SetToBag({v})

\* for batch := range jobs: a batch is received
WorkerRecv(w) ==
    /\ Running
    /\ w.pc = "recv"
    /\ jobs # <<>>
    /\ wk' = Moved(w, [IdleWorker EXCEPT !.pc = "proc", !.batch = Head(jobs)])
    /\ jobs' = Tail(jobs)
    /\ taken' = taken (+) SetToBag({BatchIdOf(Head(jobs))})
    /\ steps' = steps + 1
    /\ UNCHANGED << inputVars, extractorVars, faultsLeft, pc, imageFiles, i, jobsClosed,
                    results, resultsClosed, wg, collectorVars, storage, milvus,
                    sent, produced, consumed, insertCalls >>

\* for batch := range jobs: the channel is closed and drained; wg.Done()
WorkerExit(w) ==
    /\ Running
    /\ w.pc = "recv"
    /\ jobs = <<>>
    /\ jobsClosed
    /\ wk' = Moved(w, [w EXCEPT !.pc = "done"])
    /\ wg' = WgDone(wg)
    /\ steps' = steps + 1
    /\ UNCHANGED << inputVars, extractorVars, faultsLeft, pc, imageFiles, i, jobs, jobsClosed,
                    results, resultsClosed, collectorVars, storage, milvus,
                    historyVars >>

\* one iteration of the item loop of processBatch
WorkerItem(w) ==
    /\ Running
    /\ w.pc = "proc"
    /\ w.pos < BatchLen(w.batch)
    /\ LET path == BatchItem(w.batch, w.pos)
           e    == entries[path]
           id   == NewImageID(path)
       IN  IF ~LoadImageFromFile(e)
           THEN /\ wk' = Moved(w, ItemFailed(w))
                /\ UNCHANGED << storage, faultsLeft >>
           ELSE \E o \in ItemOutcomes(faultsLeft) :
                  LET c == copyImageFile(id, e.ext, o)
                  IN  /\ faultsLeft' = IF o = "ok" THEN faultsLeft ELSE faultsLeft - 1
                      /\ IF ~ExtractOK(o)
                         THEN /\ wk' = Moved(w, ItemFailed(w))
                              /\ UNCHANGED storage
                         ELSE /\ storage' = storage \cup c.files
                              /\ wk' = Moved(w, IF c.err THEN ItemFailed(w)
                                                ELSE ItemSucceeded(w, id, Features(path)))
    /\ steps' = steps + 1
    /\ UNCHANGED << inputVars, extractorVars, pc, imageFiles, i, jobs, jobsClosed, results,
                    resultsClosed, wg, collectorVars, milvus, historyVars >>

\* the end of processBatch: the single insert call and the BatchResult
WorkerInsert(w) ==
    /\ Running
    /\ w.pc = "proc"
    /\ ~(w.pos < BatchLen(w.batch))
    /\ IF Len(w.imageIDs) > 0
       THEN \E o \in InsertOutcomes(faultsLeft) :
              LET r == InsertVectors(w.imageIDs, w.vectors, o)
              IN  /\ milvus' = milvus \cup r.stored
                  /\ faultsLeft' = IF o = "ok" THEN faultsLeft ELSE faultsLeft - 1
                  /\ insertCalls' = insertCalls (+) SetToBag(
                         { [batch |-> BatchIdOf(w.batch), ids |-> w.imageIDs,
                            vectors |-> w.vectors, err |-> r.err] })
                  /\ wk' = Moved(w, [w EXCEPT !.pc = "send",
                                              !.result =
                                                 IF r.err # None
                                                 THEN << InsertFailedResult(w, r.err) >>
                                                 ELSE << BatchDoneResult(w) >>])
       ELSE /\ wk' = Moved(w, [w EXCEPT !.pc = "send",
                                        !.result = << BatchDoneResult(w) >>])
            /\ UNCHANGED << milvus, faultsLeft, insertCalls >>
    /\ produced' = produced (+) SetToBag({BatchIdOf(w.batch)})
    /\ steps' = steps + 1
    /\ UNCHANGED << inputVars, extractorVars, pc, imageFiles, i, jobs, jobsClosed, results,
                    resultsClosed, wg, collectorVars, storage, sent, taken,
                    consumed >>

\* results <- result
WorkerSend(w) ==
    /\ Running
    /\ w.pc = "send"
    /\ IF resultsClosed
       THEN /\ pc' = "panic"
            /\ UNCHANGED << results, wk >>
       ELSE /\ CanSend(results)
            /\ results' = Append(results, w.result[1])
            /\ wk' = Moved(w, [IdleWorker EXCEPT !.pc = AfterSend(w.result[1])])
            /\ pc' = pc
    /\ steps' = steps + 1
    /\ UNCHANGED << inputVars, extractorVars, faultsLeft, imageFiles, i, jobs, jobsClosed,
                    resultsClosed, wg, collectorVars, storage, milvus,
                    historyVars >>

-----------------------------------------------------------------------------
(* resultCollector *)

\* a collector that keeps the count of the result that arrived last
AddProcessedOverwrite(total, result) == result.ProcessedCount

\* totalProcessed += result.ProcessedCount
AddProcessed(total, result) == total + result.ProcessedCount

\* AddErrors counting a failed batch as one error
AddErrorsPerBatch(total, result) ==
    total + (IF result.Error # None THEN 1 ELSE result.ErrorCount)

\* totalErrors += result.ErrorCount
AddErrors(total, result) == total + result.ErrorCount

\* for result := range results: a result is received
CollectorRecv ==
    /\ Running
    /\ cpc = "recv"
    /\ results # <<>>
    /\ LET result == Head(results)
       IN  /\ batchCount' = batchCount + 1
           /\ totalProcessed' = AddProcessed(totalProcessed, result)
           /\ totalErrors' = AddErrors(totalErrors, result)
           /\ consumed' = consumed (+) SetToBag({result.BatchID})
    /\ results' = Tail(results)
    /\ steps' = steps + 1
    /\ UNCHANGED << inputVars, extractorVars, faultsLeft, pc, imageFiles, i, jobs, jobsClosed,
                    resultsClosed, wg, wk, cpc, finalLog, storage, milvus,
                    sent, taken, produced, insertCalls >>

\* the range loop ends on the closed, drained channel; the final line is logged
CollectorFinal ==
    /\ Running
    /\ cpc = "recv"
    /\ results = <<>>
    /\ resultsClosed
    /\ finalLog' = << [totalFiles |-> Len(imageFiles),
                        totalProcessed |-> totalProcessed,
                        totalErrors |-> totalErrors] >>
    /\ cpc' = "done"
    /\ steps' = steps + 1
    /\ UNCHANGED << inputVars, extractorVars, faultsLeft, pc, imageFiles, i, jobs, jobsClosed,
                    results, resultsClosed, wg, wk, totalProcessed, totalErrors,
                    batchCount, storage, milvus, historyVars >>

-----------------------------------------------------------------------------
(* utils: images.  An image is its width, its height and its pixels; the   *)
(* images explored are of one colour, which resizing and cropping keep.    *)

Colour(r, g, b) == [r |-> r, g |-> g, b |-> b]
Red   == Colour(255, 0, 0)
Black == Colour(0, 0, 0)
White == Colour(255, 255, 255)
\* a colour whose three channels fall into three different bins
Amber == Colour(240, 128, 16)
Img(w, h, c) == [w |-> w, h |-> h, c |-> c]

\* sizes next to the squares: images without pixels, a larger square, two
\* aspect ratios at two scales each, and images far wider or taller than
\* they are high or wide
SpecialSizes ==
    { <<0, 1>>, <<1, 0>>, <<2, 1>>, <<1, 2>>, <<4, 2>>, <<2, 4>>,
      <<32, 32>>, <<274, 1>>, <<548, 2>>, <<1, 274>>, <<1000, 1>> }

\* the images handed to the calls: the squares up to MaxSide and the
\* special sizes in red, and an amber square
Images ==
    { Img(side, side, Red) : side \in 0..MaxSide }
       \cup { Img(sz[1], sz[2], Red) : sz \in SpecialSizes }
       \cup { Img(32, 32, Amber) }

\* what a call on an image gives: an image, or a run-time panic
Returned(img) == [panic |-> FALSE, img |-> img]
Panicked == [panic |-> TRUE, img |-> Img(0, 0, Black)]

\* resize.Resize(width, height, img, resize.Lanczos3) of nfnt/resize: an
\* image of width x height pixels; a 0 stands for the size that keeps the
\* aspect ratio, uint(0.7 + old/scale); an image without pixels is returned
\* as it is
Resize(width, height, img) ==
    LET newWidth ==
            IF width # 0 THEN width
            ELSE IF height = 0 THEN img.w
            ELSE (7 * img.h + 10 * img.w * height) \div (10 * img.h)
        newHeight ==
            IF height # 0 THEN height
            ELSE IF width = 0 THEN img.h
            ELSE (7 * img.w + 10 * img.h * width) \div (10 * img.w)
    IN  IF img.w <= 0 \/ img.h <= 0 THEN img
        ELSE [img EXCEPT !.w = newWidth, !.h = newHeight]

\* ResizeImage dividing before it multiplies
ResizeImageDivideFirst(img, targetSize) ==
    IF img.w > img.h
    THEN Returned(Resize(targetSize, (targetSize \div img.w) * img.h, img))
    ELSE IF img.h = 0 THEN Panicked
    ELSE Returned(Resize((targetSize \div img.h) * img.w, targetSize, img))

\* ResizeImage: the longer side becomes targetSize, the other side
\* targetSize * other / longer in integer arithmetic; a 0 x 0 image divides
\* by zero
ResizeImage(img, targetSize) ==
    IF img.w > img.h
    THEN Returned(Resize(targetSize, (targetSize * img.h) \div img.w, img))
    ELSE IF img.h = 0 THEN Panicked
    ELSE Returned(Resize((targetSize * img.w) \div img.h, targetSize, img))

\* CenterCrop: imaging.CropCenter(img, size, size) cuts the size x size
\* rectangle around the centre out of the image, that is, its intersection
\* with the image; an empty intersection gives an empty image
CenterCrop(img, size) ==
    LET w == IF img.w < size THEN img.w ELSE size
        h == IF img.h < size THEN img.h ELSE size
    IN  IF w <= 0 \/ h <= 0 THEN [img EXCEPT !.w = 0, !.h = 0]
        ELSE [img EXCEPT !.w = w, !.h = h]

\* PreprocessImage: ResizeImage(img, size+50), then CenterCrop(resized, size)
PreprocessImage(img, size) ==
    LET resized == ResizeImage(img, size + CropMargin)
    IN  IF resized.panic THEN Panicked
        ELSE Returned(CenterCrop(resized.img, size))

-----------------------------------------------------------------------------
(* models: float32 values.  A value is a rational n/d, or NaN (0/0), or an *)
(* infinity (x/0), or a positive number that is not computed: g*g*n/d for  *)
(* the grey level g of a colour, g in units of 1/255000.                   *)

RECURSIVE Gcd(_, _)
Gcd(a, b) == IF b = 0 THEN a ELSE Gcd(b, a % b)

Num(n, d) == [k |-> "num", n |-> n, d |-> d, g |-> 0]
F0 == Num(0, 1)
F1 == Num(1, 1)
NaN == [k |-> "nan", n |-> 0, d |-> 0, g |-> 0]
Inf == [k |-> "inf", n |-> 1, d |-> 0, g |-> 0]

\* n/d in lowest terms, n >= 0 and d > 0
Rat(n, d) == LET c == Gcd(n, d) IN Num(n \div c, d \div c)

\* float32(a) / float32(b) for integers a >= 0 and b: dividing by zero is
\* no panic for floats, 0/0 is NaN; 0 divided by a negative number is -0,
\* which equals 0
FDiv(a, b) ==
    IF b = 0 THEN (IF a = 0 THEN NaN ELSE Inf)
    ELSE IF b > 0 THEN Rat(a, b)
    ELSE LET q == Rat(a, 0 - b) IN Num(0 - q.n, q.d)

\* the bin of a channel value with the bins clamped to 14
BinOffByOne(v) == IF v \div HistBins > 14 THEN 14 ELSE v \div HistBins

\* the bin of an 8-bit channel value r>>8: sixteen values per bin
Bin(v) == IF v \div HistBins > 15 THEN 15 ELSE v \div HistBins

\* the histogram of one channel of an image of one colour: every pixel
\* falls into the bin of that colour
ChannelHist(img, v) ==
    [b \in 1..HistBins |-> IF b - 1 = Bin(v) THEN img.w * img.h ELSE 0]

\* extractColorHistogram with the channels in the order B, G, R
extractColorHistogramBGR(img) ==
    LET totalPixels == img.w * img.h
        histR == ChannelHist(img, img.c.r)
        histG == ChannelHist(img, img.c.g)
        histB == ChannelHist(img, img.c.b)
    IN  [n \in 1..(3 * HistBins) |->
            IF n <= HistBins THEN FDiv(histB[n], totalPixels)
            ELSE IF n <= 2 * HistBins THEN FDiv(histG[n - HistBins], totalPixels)
            ELSE FDiv(histR[n - 2 * HistBins], totalPixels)]

\* extractColorHistogram: 16 bins per channel, R then G then B, each count
\* divided by the number of pixels
extractColorHistogram(img) ==
    LET totalPixels == img.w * img.h
        histR == ChannelHist(img, img.c.r)
        histG == ChannelHist(img, img.c.g)
        histB == ChannelHist(img, img.c.b)
    IN  [n \in 1..(3 * HistBins) |->
            IF n <= HistBins THEN FDiv(histR[n], totalPixels)
            ELSE IF n <= 2 * HistBins THEN FDiv(histG[n - HistBins], totalPixels)
            ELSE FDiv(histB[n - 2 * HistBins], totalPixels)]

\* 1000 times the grey level 0.299 r + 0.587 g + 0.114 b
GrayMilli(c) == 299 * c.r + 587 * c.g + 114 * c.b

\* calculateEdgeStrength: width is read off the first row, so an image
\* without rows panics; the Sobel responses of an image of one colour sum
\* to 0, and the sum is divided by (width-2)*(height-2)
calculateEdgeStrength(img) ==
    IF img.h = 0 THEN [panic |-> TRUE, value |-> NaN]
    ELSE [panic |-> FALSE, value |-> FDiv(0, (img.w - 2) * (img.h - 2))]

\* extractTextureFeatures: contrast, energy, uniformity, edge strength.
\* The differences between neighbours of an image of one colour are 0;
\* the energy sums g*g over the (width-1)*(height-1) pixels visited
extractTextureFeatures(img) ==
    LET visited  == IF img.w > 1 /\ img.h > 1 THEN (img.w - 1) * (img.h - 1) ELSE 0
        contrast == FDiv(0, (img.w - 1) * (img.h - 1))
        energy   == IF img.w * img.h = 0 THEN FDiv(0, 0)
                    ELSE IF visited = 0 \/ GrayMilli(img.c) = 0 THEN F0
                    ELSE [k |-> "pos", n |-> visited, d |-> img.w * img.h,
                          g |-> GrayMilli(img.c)]
        edge     == calculateEdgeStrength(img)
    IN  [panic |-> edge.panic,
         features |-> << contrast, energy, energy, edge.value >>]

\* the first column (row) of cell g, for cells of `cell` columns (rows)
CellStart(g, cell) == g * cell

\* the column (row) after the last one of cell g, cut at the image's side
CellEnd(g, cell, size) ==
    IF (g + 1) * cell > size THEN size ELSE (g + 1) * cell

\* the columns (rows) of cell g of a side of `size` pixels; the cells are
\* size / gridSize wide
CellSpan(g, size) ==
    LET cell == size \div GridSize
    IN  CellStart(g, cell) .. (CellEnd(g, cell, size) - 1)

\* extractSpatialFeatures: the mean colour of each cell of the 4 x 4 grid,
\* divided by 255, cell after cell in row-major order; a cell without
\* pixels keeps 0
extractSpatialFeatures(img) ==
    [n \in 1..(GridSize * GridSize * 3) |->
        LET idx   == (n - 1) \div 3
            gx    == idx % GridSize
            gy    == idx \div GridSize
            count == Cardinality(CellSpan(gx, img.w)) * Cardinality(CellSpan(gy, img.h))
        IN  IF count > 0
            THEN CASE (n - 1) % 3 = 0 -> FDiv(img.c.r, 255)
                   [] (n - 1) % 3 = 1 -> FDiv(img.c.g, 255)
                   [] OTHER           -> FDiv(img.c.b, 255)
            ELSE F0]

\* a * a as a rational, for a rational a
Square(a) == Rat(a.n * a.n, a.d * a.d)

\* a + b over the least common denominator
RatAdd(a, b) ==
    LET c == Gcd(a.d, b.d)
    IN  Rat(a.n * (b.d \div c) + b.n * (a.d \div c), (a.d \div c) * b.d)

RatTimes(m, a) == Rat(m * a.n, a.d)

Occurrences(features, v) ==
    Cardinality({ n \in 1..Len(features) : features[n] = v })

RECURSIVE SumOfSquares(_, _)
SumOfSquares(features, values) ==
    IF values = {} THEN F0
    ELSE LET v == CHOOSE x \in values : TRUE
         IN  RatAdd(RatTimes(Occurrences(features, v), Square(v)),
                    SumOfSquares(features, values \ {v}))

\* norm += float64(f*f) over the vector: NaN as soon as one component is
\* NaN, else the sum of the squares of the rationals plus the squares of
\* the components that are not computed
NormSquared(features) ==
    LET all == { features[n] : n \in 1..Len(features) }
    IN  [nan  |-> \E v \in all : v.k \in {"nan", "inf"},
         sum  |-> SumOfSquares(features, { v \in all : v.k = "num" }),
         more |-> [v \in { x \in all : x.k = "pos" } |-> Occurrences(features, v)]]

\* norm == 0
NormIsZero(norm) ==
    ~norm.nan /\ norm.sum = F0 /\ DOMAIN norm.more = {}

\* a component of a vector l2Normalize returns: the component it was given
\* and, when it was divided, the squared norm it was divided by the root of
Kept(f) == [of |-> f, divided |-> FALSE, by |-> NormSquared(<< >>)]
DividedBy(f, norm) == [of |-> f, divided |-> TRUE, by |-> norm]

\* l2Normalize: the vector itself when the norm is 0, else every component
\* divided by the norm
l2Normalize(features) ==
    LET norm == NormSquared(features)
    IN  IF NormIsZero(norm)
        THEN [n \in 1..Len(features) |-> Kept(features[n])]
        ELSE [n \in 1..Len(features) |->  DividedBy(features[n], norm)]

\* features[:Dimension], or features padded with zeros up to Dimension
FitDimension(features, dim) ==
    IF Len(features) > dim THEN SubSeq(features, 1, dim)
    ELSE IF Len(features) < dim
         THEN features \o [n \in 1..(dim - Len(features)) |-> F0]
         ELSE features

\* what ExtractFeatures gives: a panic, or a vector and a nil error.
\* features and fitted are the combined vector before and after it is cut
\* or padded to the dimension
Extracted(panic, features, fitted, vector) ==
    [panic |-> panic, err |-> FALSE, features |-> features,
     fitted |-> fitted, vector |-> vector]

\* SimpleFeatureExtractor.ExtractFeatures of an extractor whose Dimension
\* is dim
ExtractFeaturesWith(img, dim) ==
    LET processed == PreprocessImage(img, ExtractSize)
    IN  IF processed.panic THEN Extracted(TRUE, << >>, << >>, << >>)
        ELSE LET colorFeatures   == extractColorHistogram(processed.img)
                 textureFeatures == extractTextureFeatures(processed.img)
                 spatialFeatures == extractSpatialFeatures(processed.img)
                 features == colorFeatures \o textureFeatures.features
                                \o spatialFeatures
                 fitted   == FitDimension(features, dim)
             IN  IF textureFeatures.panic
                 THEN Extracted(TRUE, << >>, << >>, << >>)
                 ELSE Extracted(FALSE, features, fitted, l2Normalize(fitted))

\* SimpleFeatureExtractor.ExtractFeatures of the extractor in use
ExtractFeatures(img) == ExtractFeaturesWith(img, dimension)

\* the smallest element of a non-empty set of numbers
Least(S) == CHOOSE x \in S : \A y \in S : x <= y

\* the loop of BatchExtractFeatures from image at on, features holding the
\* vectors of the images before it: the first error ends the call with no
\* vectors and the 0-based index of the image, a panic ends it with the
\* panic.  calls: the ExtractFeatures calls made
RECURSIVE BatchExtractFrom(_, _, _)
BatchExtractFrom(imgs, at, features) ==
    IF at > Len(imgs)
    THEN [panic |-> FALSE, err |-> FALSE, index |-> 0,
          features |-> features, calls |-> Len(imgs)]
    ELSE LET feature == ExtractFeatures(imgs[at])
         IN  IF feature.panic \/ feature.err
             THEN [panic |-> feature.panic, err |-> ~feature.panic,
                   index |-> at - 1, features |-> << >>, calls |-> at]
             ELSE BatchExtractFrom(imgs, at + 1, Append(features, feature.vector))

\* SimpleFeatureExtractor.BatchExtractFeatures
BatchExtractFeatures(imgs) == BatchExtractFrom(imgs, 1, << >>)

-----------------------------------------------------------------------------
(* Calls of the image and extractor functions on decoded images *)

\* the crop sizes PreprocessImage is called with
CropSizes == { ExtractSize, 2 }

Made(fn, size, out) == [fn |-> fn, size |-> size, out |-> out]

\* utils.PreprocessImage on every image handed in
CallPreprocessImage ==
    /\ made = << >>
    /\ images # << >>
    /\ \E size \in CropSizes :
          made' = << Made("PreprocessImage", size,
                          [k \in 1..Len(images) |-> PreprocessImage(images[k], size)]) >>
    /\ UNCHANGED << pipelineVars, images, dimension, storeVars >>

\* ExtractFeatures on every image handed in
CallExtractFeatures ==
    /\ made = << >>
    /\ images # << >>
    /\ made' = << Made("ExtractFeatures", ExtractSize,
                       [k \in 1..Len(images) |-> ExtractFeatures(images[k])]) >>
    /\ UNCHANGED << pipelineVars, images, dimension, storeVars >>

\* BatchExtractFeatures on the images handed in
CallBatchExtractFeatures ==
    /\ made = << >>
    /\ made' = << Made("BatchExtractFeatures", ExtractSize,
                       << BatchExtractFeatures(images) >>) >>
    /\ UNCHANGED << pipelineVars, images, dimension, storeVars >>

\* the dimensions an extractor is made with: below, at and above the 100
\* features computed
Dimensions == { 15, 100, DefaultDimension }

InitImages ==
    /\ images \in SeqsUpTo(Images, MaxImages)
    /\ dimension \in Dimensions
    /\ entries = << >>
    /\ batchSize = 1
    /\ maxWorkers = 1
    /\ faultsLeft = 0
    /\ InitDefaultConfig

InitExtractor == InitImages /\ InitRun

NextExtractor ==
    \/ CallPreprocessImage
    \/ CallExtractFeatures
    \/ CallBatchExtractFeatures

\* the image utilities and the extractor called on decoded images
SpecExtractor == InitExtractor /\ [][NextExtractor]_vars

-----------------------------------------------------------------------------
(* Specifications *)

Worker == \E w \in Workers :
             WorkerRecv(w) \/ WorkerItem(w) \/ WorkerInsert(w) \/ WorkerSend(w) \/ WorkerExit(w)

Next ==
    \/ Discover
    \/ StartPool
    \/ Dispatch
    \/ CloseJobs
    \/ CloseResults
    \/ Exit
    \/ Worker
    \/ CollectorRecv
    \/ CollectorFinal

Spec == Init /\ [][Next]_vars

-----------------------------------------------------------------------------
(* Shared vocabulary of the properties *)

\* every BatchResult that exists: returned by processBatch and not yet sent,
\* or waiting in the results channel
LiveResults ==
    { w.result[1] : w \in { v \in Workers : v.result # <<>> } }
      \cup { results[n] : n \in 1..Len(results) }

\* the batch a result belongs to
BatchOfResult(r) == sent[r.BatchID + 1]

\* the paths of a batch
PathsOf(batch) == { imageFiles[p + 1] : p \in batch.lo..(batch.hi - 1) }

\* the InsertVectors calls made so far
InsertCalls == BagToSet(insertCalls)

\* a complete canonical copy exists for the id
HasCopy(id) == \E f \in storage : f.id = id /\ f.complete

\* ceil(n / b), defined without the dispatcher's arithmetic
CeilDiv(n, b) == CHOOSE q \in 0..n : q * b >= n /\ (q = 0 \/ (q - 1) * b < n)

Min(a, b) == IF a < b THEN a ELSE b

\* the dispatch loop of ProcessDataset run to its end for n files
RECURSIVE DispatchLoop(_, _, _)
DispatchLoop(idx, b, n) ==
    IF idx < n
    THEN << Slice(idx, BatchEnd(idx, b, n)) >> \o DispatchLoop(idx + b, b, n)
    ELSE << >>

\* the paths of a sequence of batches, batch after batch
RECURSIVE ConcatBatches(_)
ConcatBatches(bs) ==
    IF bs = << >> THEN << >>
    ELSE SubSeq(imageFiles, Head(bs).lo + 1, Head(bs).hi) \o ConcatBatches(Tail(bs))

\* the sizes of the batches the loop makes of 230 files with batchSize 50
Sizes230By50 ==
    LET bs == DispatchLoop(0, 50, 230)
    IN  [n \in 1..Len(bs) |-> BatchLen(bs[n])]

-----------------------------------------------------------------------------
\* C1: every BatchResult emitted by processBatch has
\* processedCount + errorCount = len(batch), whatever the per-item outcomes
\* and whatever the outcome of the insert call (or without an insert call).
C1_CountsAddUp ==
    \A r \in LiveResults :
        r.ProcessedCount + r.ErrorCount = BatchLen(BatchOfResult(r))

\* a failed insert for a two-file batch one of whose files could not be decoded
C1_Witness ==
    \E r \in LiveResults :
        /\ ~r.Success
        /\ BatchLen(BatchOfResult(r)) = 2
        /\ \E p \in PathsOf(BatchOfResult(r)) : entries[p].content = "corrupt"

\* C2: the dispatcher sends exactly ceil(N/B) batches, each non-empty and of
\* at most B files, batch k holding files [k*B, min((k+1)*B, N)), so that the
\* batches in dispatch order concatenate to the discovery order; 230 files
\* with B = 50 give batches of 50, 50, 50, 50 and 30 files.
C2_Partition ==
    LET N == Len(imageFiles)
    IN  /\ \A n \in 1..Len(sent) :
              /\ sent[n].lo = (n - 1) * batchSize
              /\ sent[n].hi = Min(n * batchSize, N)
              /\ BatchLen(sent[n]) >= 1
              /\ BatchLen(sent[n]) <= batchSize
        /\ Len(sent) <= CeilDiv(N, batchSize)
        /\ jobsClosed => Len(sent) = CeilDiv(N, batchSize)
        /\ ConcatBatches(sent) = SubSeq(imageFiles, 1, Len(ConcatBatches(sent)))
        /\ jobsClosed => ConcatBatches(sent) = imageFiles
        /\ Sizes230By50 = <<50, 50, 50, 50, 30>>

\* both batches of a two-file list with batchSize 1 are out
C2_Witness ==
    /\ jobsClosed
    /\ Len(imageFiles) = 2
    /\ batchSize = 1
    /\ Len(sent) = 2
    /\ ConcatBatches(sent) = imageFiles

\* C3: when the insert call of a batch fails, the BatchResult has
\* processedCount = 0, errorCount = len(batch) and carries the error, and the
\* canonical copies of the call's items are in storage and have no
\* vector-store entry.
C3_FailedInsertLeavesCopiesOnly ==
    /\ \A r \in LiveResults :
          r.Error # None =>
             /\ r.ProcessedCount = 0
             /\ r.ErrorCount = BatchLen(BatchOfResult(r))
             /\ ~r.Success
    /\ \A call \in InsertCalls :
          call.err # None =>
             \A m \in 1..Len(call.ids) :
                /\ HasCopy(call.ids[m])
                /\ call.ids[m] \notin milvus

\* C4: a load, extract or copy failure of an item adds exactly 1 to the
\* batch's error count and the loop goes on with the next item; an item that
\* passes the three steps has its canonical copy in storage and its
\* (id, vector) pair in the batch's insert call.
C4_ItemStep(w, v) ==
    (w # v /\ wk' = Moved(w, v) /\ w.pc = "proc" /\ w.pos < BatchLen(w.batch))
    =>
    LET path == BatchItem(w.batch, w.pos)
        fail == /\ v.errorCount = w.errorCount + 1
                /\ v.successCount = w.successCount
                /\ v.imageIDs = w.imageIDs
                /\ v.vectors = w.vectors
        pass == /\ v.errorCount = w.errorCount
                /\ v.successCount = w.successCount + 1
                /\ v.imageIDs = Append(w.imageIDs, NewImageID(path))
                /\ v.vectors = Append(w.vectors, Features(path))
                /\ \E f \in storage' : f.id = NewImageID(path) /\ f.complete
    IN  /\ v.pc = "proc"
        /\ v.batch = w.batch
        /\ v.pos = w.pos + 1
        /\ fail \/ pass
        /\ entries[path].content # "good" => fail

C4_WorkerState(w) ==
    /\ w.pc \in {"proc", "send"} =>
          /\ w.successCount + w.errorCount = w.pos
          /\ Len(w.imageIDs) = w.successCount
          /\ Len(w.vectors) = w.successCount
          /\ \A p \in 0..(w.pos - 1) :
                HasCopy(NewImageID(BatchItem(w.batch, p)))
                   <=> \E m \in 1..Len(w.imageIDs) :
                          /\ w.imageIDs[m] = NewImageID(BatchItem(w.batch, p))
                          /\ w.vectors[m] = Features(BatchItem(w.batch, p))
    /\ w.pc = "send" =>
          /\ w.pos = BatchLen(w.batch)
          /\ w.successCount > 0 =>
                \E call \in InsertCalls :
                   /\ call.batch = BatchIdOf(w.batch)
                   /\ call.ids = w.imageIDs
                   /\ call.vectors = w.vectors

-----------------------------------------------------------------------------
\* the number of files of the batches in a bag of batch ids
RECURSIVE FilesOfIds(_, _)
FilesOfIds(ids, bag) ==
    IF ids = {} THEN 0
    ELSE LET b == CHOOSE x \in ids : TRUE
         IN  CopiesIn(b, bag) * BatchLen(sent[b + 1]) + FilesOfIds(ids \ {b}, bag)

FilesOf(bag) == FilesOfIds(BagToSet(bag), bag)

\* the ids of the batches sent so far
SentIds == 0..(Len(sent) - 1)

\* C6: the job channel is closed only after the last batch has been sent, the
\* result channel only after every worker has exited, nothing is ever sent on
\* a closed channel, and the collector logs its final totals only after the
\* result channel has been closed and drained.
C6_ShutdownOrder ==
    /\ pc # "panic"
    /\ jobsClosed =>
          /\ i >= Len(imageFiles)
          /\ Len(sent) = CeilDiv(Len(imageFiles), batchSize)
    /\ resultsClosed =>
          /\ jobsClosed
          /\ jobs = << >>
          /\ \A w \in Workers : w.pc = "done"
    /\ finalLog # <<>> =>
          /\ resultsClosed
          /\ results = << >>
          /\ cpc = "done"
    /\ cpc = "done" => finalLog # <<>>

\* the final totals are out after a run of two batches
C6_Witness ==
    /\ finalLog # <<>>
    /\ Len(sent) = 2
    /\ maxWorkers = 2

\* C7: totalProcessed, totalErrors and batchCount never decrease; at every
\* point totalProcessed + totalErrors is the number of files of the batches
\* whose results the collector has consumed; and the final totals are logged
\* with batchCount = ceil(N/B) and totalProcessed + totalErrors = N.
C7_TotalsStep ==
    /\ totalProcessed' >= totalProcessed
    /\ totalErrors' >= totalErrors
    /\ batchCount' >= batchCount

C7_TotalsState ==
    /\ totalProcessed + totalErrors = FilesOf(consumed)
    /\ batchCount = BagCardinality(consumed)
    /\ finalLog # <<>> =>
          /\ batchCount = CeilDiv(Len(imageFiles), batchSize)
          /\ totalProcessed + totalErrors = Len(imageFiles)
          /\ finalLog[1].totalProcessed = totalProcessed
          /\ finalLog[1].totalErrors = totalErrors
          /\ finalLog[1].totalFiles = Len(imageFiles)

C7_CollectorTotals == []C7_TotalsState /\ [][C7_TotalsStep]_vars

\* final totals with both a processed file and a batch lost to a failed insert
C7_Witness ==
    /\ finalLog # <<>>
    /\ finalLog[1].totalProcessed > 0
    /\ finalLog[1].totalErrors > 0
    /\ \E call \in InsertCalls : call.err # None

\* C8: each dispatched batch is received by exactly one worker, exactly one
\* BatchResult is produced for it, and that result is consumed exactly once by
\* the collector: never twice at any point, and once each when the run is over.
C8_ExactlyOnce ==
    /\ \A b \in BagToSet(taken) \cup BagToSet(produced) \cup BagToSet(consumed) :
          /\ b \in SentIds
          /\ CopiesIn(b, taken) <= 1
          /\ CopiesIn(b, produced) <= CopiesIn(b, taken)
          /\ CopiesIn(b, consumed) <= CopiesIn(b, produced)
    /\ pc = "exited" =>
          \A b \in SentIds :
             /\ CopiesIn(b, taken) = 1
             /\ CopiesIn(b, produced) = 1
             /\ CopiesIn(b, consumed) = 1

\* C9: if the walk reports an error for any entry, ProcessDataset returns an
\* error and the run aborts: no worker, no collector, no batch, no canonical
\* copy and no insert call, also for files found before the error.
C9_WalkErrorAborts ==
    /\ (\E n \in 1..Len(entries) : entries[n].err) =>
          pc \in {"discover", "failed", "fatal"}
    /\ pc \in {"failed", "fatal"} =>
          /\ wk = EmptyBag
          /\ cpc = None
          /\ wg = 0
          /\ sent = << >>
          /\ jobs = << >>
          /\ results = << >>
          /\ storage = {}
          /\ milvus = {}
          /\ insertCalls = EmptyBag
          /\ finalLog = <<>>

\* the walk failed after it had found an image file
C9_Witness ==
    /\ pc = "failed"
    /\ Len(imageFiles) = 1
    /\ entries[imageFiles[1]].content = "good"

\* the supported extensions in the spellings the model's trees use
SupportedAnyCase ==
    { ".jpg", ".JPG", ".Jpg", ".jpeg", ".JPEG", ".png", ".PNG",
      ".bmp", ".BMP", ".tiff", ".TIFF" }

\* C19: a discovery that succeeds returns exactly the entries that are not
\* directories and whose extension is, in any letter case, one of .jpg,
\* .jpeg, .png, .bmp, .tiff; it returns them in the order of the walk, each
\* once; no directory and no file with another extension is returned.
C19_DiscoverFilter ==
    pc \notin {"discover", "failed", "fatal"} =>
       /\ \A n \in 1..Len(entries) :
             (\E k \in 1..Len(imageFiles) : imageFiles[k] = n)
                <=> (~entries[n].isDir /\ entries[n].ext \in SupportedAnyCase)
       /\ \A k \in 1..(Len(imageFiles) - 1) : imageFiles[k] < imageFiles[k + 1]
       /\ \A k \in 1..Len(imageFiles) : imageFiles[k] \in 1..Len(entries)

\* the walk met a directory named like an image and then a file whose
\* extension is spelled in capitals: only the file was returned
C19_Witness ==
    /\ pc = "start"
    /\ Len(entries) = 2
    /\ entries[1] = DirNamed(".jpg")
    /\ entries[2] = File(".JPG", "good")
    /\ imageFiles = << 2 >>

\* C16: an InsertVectors call is all-or-nothing: after a call that returned
\* an error none of its ids is in the collection, after a call that returned
\* nil all of them are, and a call whose ids and vectors differ in length
\* fails before the backend is called.
C16_AllOrNothing ==
    /\ \A call \in InsertCalls :
          LET ids == { call.ids[n] : n \in 1..Len(call.ids) }
          IN  /\ call.err # None => ids \cap milvus = {}
              /\ call.err = None => ids \subseteq milvus
    /\ \A o \in InsertOutcomes(1) :
          LET r == InsertVectors(<<1, 2>>, << Features(1) >>, o)
          IN  r.err # None /\ r.stored = {} /\ ~r.backend

-----------------------------------------------------------------------------
(* Fair scheduling: the Go scheduler runs every goroutine that can run.    *)

Fairness ==
    /\ WF_vars(Discover) /\ WF_vars(StartPool) /\ WF_vars(Dispatch)
    /\ WF_vars(CloseJobs) /\ WF_vars(CloseResults) /\ WF_vars(Exit)
    /\ WF_vars(Worker)
    /\ WF_vars(CollectorRecv) /\ WF_vars(CollectorFinal)

\* small datasets, fair scheduling
LiveSpec == InitFair /\ [][Next]_vars /\ Fairness

\* small datasets and one dataset with more batches than a channel holds
SpecBig == InitOverCap /\ [][Next]_vars

\* the pipeline on every kind of directory tree
SpecDiscovery == InitDiscovery /\ [][Next]_vars

-----------------------------------------------------------------------------
(* Backpressure: the runs in which the collector goroutine is never        *)
(* scheduled again, on a dataset too large for the channels to absorb.     *)

\* the collector has stopped consuming
CollectorStopped == Len(entries) = StallFiles

CollectorRecvUnlessStopped == ~CollectorStopped /\ CollectorRecv

NextBackpressure ==
    \/ Discover
    \/ StartPool
    \/ Dispatch
    \/ CloseJobs
    \/ CloseResults
    \/ Exit
    \/ Worker
    \/ CollectorRecvUnlessStopped
    \/ CollectorFinal

FairnessBackpressure ==
    /\ WF_vars(Discover) /\ WF_vars(StartPool) /\ WF_vars(Dispatch)
    /\ WF_vars(CloseJobs) /\ WF_vars(CloseResults) /\ WF_vars(Exit)
    /\ WF_vars(Worker)
    /\ WF_vars(CollectorRecvUnlessStopped) /\ WF_vars(CollectorFinal)

\* small datasets with a running collector, and the large dataset with a
\* collector that has stopped; every other goroutine is scheduled fairly
SpecBackpressure ==
    InitBackpressure /\ [][NextBackpressure]_vars /\ FairnessBackpressure

\* every goroutine but the collector is blocked on a full channel
PipelineBlocked ==
    /\ Len(results) = ChanCap
    /\ \A w \in Workers : w.pc = "send"
    /\ Len(jobs) = ChanCap
    /\ pc = "dispatch"
    /\ i < Len(imageFiles)

\* C11: neither channel ever holds more than 100 elements; the dispatcher
\* cannot send while the job channel is full, a worker cannot send while the
\* result channel is full; and once the collector has stopped consuming, the
\* workers and then the dispatcher end up blocked on the full channels.
C11_Capacity ==
    /\ Len(jobs) <= ChanCap
    /\ Len(results) <= ChanCap
    /\ Len(jobs) = ChanCap => ~ENABLED Dispatch
    /\ Len(results) = ChanCap => \A w \in Workers : ~ENABLED WorkerSend(w)
    /\ PipelineBlocked => ~ENABLED (Dispatch \/ CloseJobs \/ Worker)

C11_Backpressure ==
    /\ []C11_Capacity
    /\ (CollectorStopped /\ pc = "dispatch" ~> PipelineBlocked)

\* both channels are full, the worker holds one more result and the
\* dispatcher still has a batch to send
C11_Witness ==
    /\ PipelineBlocked
    /\ CollectorStopped
    /\ Len(sent) = 2 * ChanCap + 1
    /\ BagCardinality(consumed) = 0

-----------------------------------------------------------------------------
\* the run is complete
RunComplete ==
    /\ pc \in {"returned", "exited"}
    /\ i >= Len(imageFiles)
    /\ Len(sent) = CeilDiv(Len(imageFiles), batchSize)
    /\ jobsClosed
    /\ jobs = << >>
    /\ \A w \in Workers : w.pc = "done"
    /\ BagCardinality(wk) = maxWorkers
    /\ wg = 0
    /\ resultsClosed

\* the most steps a run over n files takes: 5 of main, 1 per send on jobs,
\* per batch a receive, the insert, a send and the collector's receive, 1 per
\* item, 1 per worker exit, 1 for the final log line
StepLimit ==
    LET n  == Len(imageFiles)
        nb == TotalBatches(n, batchSize)
    IN  5 + nb + 4 * nb + n + maxWorkers + 1

InsertFailed == \E call \in InsertCalls : call.err # None

\* the result of batch b is in the results channel or with the collector
Reported(b) ==
    CopiesIn(b, consumed)
       + Cardinality({ n \in 1..Len(results) : results[n].BatchID = b }) = 1

C10_AtReturn ==
    pc = "returned" =>
       /\ Len(sent) = CeilDiv(Len(imageFiles), batchSize)
       /\ \A b \in SentIds :
             /\ CopiesIn(b, taken) = 1
             /\ CopiesIn(b, produced) = 1
             /\ Reported(b)

C10_WorkerGoesOn ==
    \A w \in Workers : \A v \in BagToSet(wk') :
       (w # v /\ wk' = Moved(w, v) /\ w.pc = "send") => v.pc = "recv"

C10_InsertFailureIsLocal ==
    /\ []C10_AtReturn
    /\ [](pc # "failed" \/ ~InsertFailed)
    /\ [][C10_WorkerGoesOn]_vars
    /\ (InsertFailed /\ pc # "exited" ~> pc = "returned")

\* ProcessDataset has returned nil after the only worker saw the insert of
\* batch 0 fail and then processed batch 1
C10_Witness ==
    /\ pc = "returned"
    /\ maxWorkers = 1
    /\ \E call \in InsertCalls : call.err # None /\ call.batch = 0
    /\ CopiesIn(1, produced) = 1
    /\ Reported(0) /\ Reported(1)

-----------------------------------------------------------------------------
\* the call that was made
TheCall == made[1]

PreprocessMade == made # << >> /\ TheCall.fn = "PreprocessImage"

PositiveArea(img) == img.w > 0 /\ img.h > 0

\* C12: for every image of positive width and height, whatever its aspect
\* ratio, PreprocessImage(img, target) returns an image of exactly
\* target x target pixels.
C12_PreprocessSquare ==
    PreprocessMade =>
       \A k \in 1..Len(images) :
          PositiveArea(images[k]) =>
             /\ ~TheCall.out[k].panic
             /\ TheCall.out[k].img.w = TheCall.size
             /\ TheCall.out[k].img.h = TheCall.size

\* the images differ only by a uniform scaling of width and height
SameAspect(a, b) ==
    /\ PositiveArea(a) /\ PositiveArea(b)
    /\ a.c = b.c
    /\ a.w * b.h = b.w * a.h

\* C17: PreprocessImage gives two images that differ only by a uniform
\* scaling results of the same width and height.
C17_ScaleInvariant ==
    PreprocessMade =>
       \A j, k \in 1..Len(images) :
          SameAspect(images[j], images[k]) =>
             /\ ~TheCall.out[j].panic /\ ~TheCall.out[k].panic
             /\ TheCall.out[j].img.w = TheCall.out[k].img.w
             /\ TheCall.out[j].img.h = TheCall.out[k].img.h

\* a 2 x 1 and a 4 x 2 image were preprocessed to 224: both came out
\* 224 wide and 137 high
C17_Witness ==
    /\ PreprocessMade
    /\ TheCall.size = ExtractSize
    /\ Len(images) = 2
    /\ images[1] = Img(2, 1, Red)
    /\ images[2] = Img(4, 2, Red)
    /\ TheCall.out[1].img.w = 224 /\ TheCall.out[1].img.h = 137
    /\ TheCall.out[2].img.w = 224 /\ TheCall.out[2].img.h = 137

-----------------------------------------------------------------------------
ExtractMade == made # << >> /\ TheCall.fn = "ExtractFeatures"

BatchExtractMade == made # << >> /\ TheCall.fn = "BatchExtractFeatures"

\* the 100 features of an image in the order histogram, texture, spatial
FeaturesInOrder(img) ==
    LET processed == PreprocessImage(img, ExtractSize).img
    IN  extractColorHistogram(processed)
           \o extractTextureFeatures(processed).features
           \o extractSpatialFeatures(processed)

\* the component of a returned vector is the number 0
IsZero(c) ==
    /\ c.of = F0
    /\ c.divided => (~c.by.nan /\ ~NormIsZero(c.by))

\* C13: for every image of positive area ExtractFeatures returns a vector
\* of exactly Dimension components: the 48 histogram, 4 texture and 48
\* spatial components in that order, cut to the first Dimension of them or
\* followed by zeros up to Dimension.
C13_VectorLayout ==
    ExtractMade =>
       \A k \in 1..Len(images) :
          PositiveArea(images[k]) =>
             LET r == TheCall.out[k]
             IN  /\ ~r.panic
                 /\ ~r.err
                 /\ Len(r.vector) = dimension
                 /\ \A n \in 1..dimension :
                       IF n <= 100
                       THEN r.vector[n].of = FeaturesInOrder(images[k])[n]
                       ELSE IsZero(r.vector[n])

\* C14: ExtractFeatures returns an error, and neither panics nor returns a
\* vector, exactly for the images of zero area; for every image of positive
\* area it returns a vector and no error.
C14_ErrorIffZeroArea ==
    ExtractMade =>
       \A k \in 1..Len(images) :
          LET r == TheCall.out[k]
          IN  IF PositiveArea(images[k])
              THEN ~r.panic /\ ~r.err /\ r.vector # << >>
              ELSE ~r.panic /\ r.err /\ r.vector = << >>

\* C15: BatchExtractFeatures returns one vector per image in the order of
\* the images, or, when the extraction of an image fails, no vector and an
\* error with the 0-based index of the first such image, the images after
\* it not being extracted.
C15_BatchAllOrFirstError ==
    BatchExtractMade =>
       LET r     == TheCall.out[1]
           each  == [n \in 1..Len(images) |-> ExtractFeatures(images[n])]
           fails == { n \in 1..Len(images) : each[n].panic \/ each[n].err }
       IN  /\ ~r.panic
           /\ IF fails = {}
              THEN /\ ~r.err
                   /\ r.features = [n \in 1..Len(images) |-> each[n].vector]
              ELSE /\ r.err
                   /\ r.index = Least(fails) - 1
                   /\ r.features = << >>
                   /\ r.calls = Least(fails)

\* the image is square and of one colour, red
SolidRedSquare(img) == img.c = Red /\ img.w = img.h /\ img.w > 0

UnitNorm(vector) ==
    LET by == vector[1].by
    IN  /\ \A n \in 1..Len(vector) : vector[n].divided /\ vector[n].by = by
        /\ ~by.nan
        /\ ~NormIsZero(by)
        /\ NormSquared([n \in 1..Len(vector) |-> vector[n].of]) = by

\* C20: the vector ExtractFeatures returns has Euclidean norm 1 whenever
\* the norm of the combined vector is not zero, each component being the
\* combined component divided by that norm; when the norm is zero the
\* combined vector is returned unchanged, nothing being divided.
C20_UnitNormOrUnchanged ==
    ExtractMade =>
       \A k \in 1..Len(images) :
          LET r    == TheCall.out[k]
              norm == NormSquared(r.fitted)
          IN  (PositiveArea(images[k]) /\ ~r.panic) =>
                 IF NormIsZero(norm)
                 THEN \A n \in 1..Len(r.fitted) : r.vector[n] = Kept(r.fitted[n])
                 ELSE /\ \A n \in 1..Len(r.fitted) :
                            r.vector[n] = DividedBy(r.fitted[n], norm)
                      /\ UnitNorm(r.vector)

-----------------------------------------------------------------------------
\* the items of a batch that passed load, extract and copy, in batch order:
\* the copy is the last of the three steps
SurvivorsOf(batch) ==
    SelectSeq(SubSeq(imageFiles, batch.lo + 1, batch.hi),
              LAMBDA path : HasCopy(NewImageID(path)))

\* the InsertVectors calls made for the batch with the id
CallsFor(b) == { call \in InsertCalls : call.batch = b }

\* C21: for each batch the worker makes at most one insert call and never
\* repeats it: exactly one call if an item of the batch passed load, extract
\* and copy, none otherwise; the call carries exactly the (id, vector) pairs
\* of those items, in batch order, as many ids as vectors, the ids pairwise
\* distinct.
C21_OneInsertPerBatch ==
    /\ \A call \in InsertCalls :
          /\ CopiesIn(call, insertCalls) = 1
          /\ CallsFor(call.batch) = {call}
          /\ CopiesIn(call.batch, produced) = 1
          /\ Len(call.ids) = Len(call.vectors)
          /\ \A m, n \in 1..Len(call.ids) : call.ids[m] = call.ids[n] => m = n
    /\ \A b \in BagToSet(produced) :
          LET survivors == SurvivorsOf(sent[b + 1])
          IN  IF survivors = << >>
              THEN CallsFor(b) = {}
              ELSE \E call \in CallsFor(b) :
                      /\ call.ids = [n \in 1..Len(survivors) |-> NewImageID(survivors[n])]
                      /\ call.vectors = [n \in 1..Len(survivors) |-> Features(survivors[n])]

\* the run is over: a batch of two files went out in one call with both
\* pairs, although the call failed
C21_Witness ==
    /\ pc = "exited"
    /\ BagCardinality(insertCalls) = 1
    /\ \E call \in InsertCalls : Len(call.ids) = 2 /\ call.err # None

\* C22: when ProcessDataset has returned nil, and from then on, the
\* collector has consumed the BatchResult of every batch and has logged the
\* final totals: the run is never complete with a result unconsumed or the
\* final totals not logged.
C22_DoneAfterCollector ==
    pc \in {"returned", "exited"} =>
       /\ results = << >>
       /\ \A b \in SentIds : CopiesIn(b, consumed) = 1
       /\ cpc = "done"
       /\ finalLog # << >>

-----------------------------------------------------------------------------
\* the number of batches received by a worker whose result has not yet
\* been pushed onto the results channel
InProcessing ==
    BagCardinality(taken) - (BagCardinality(consumed) + Len(results))

\* the steps of one worker: a batch is pulled only by a worker that holds
\* none, its items are processed in order, one per step, and the worker is
\* free again only when it has pushed the result
C23_WorkerStep(w, v) ==
    (w # v /\ wk' = Moved(w, v)) =>
       CASE w.pc = "recv" ->
               \/ v.pc = "proc" /\ v.batch = Head(jobs) /\ v.pos = 0
               \/ v.pc = "done"
         [] w.pc = "proc" ->
               /\ v.batch = w.batch
               /\ \/ v.pc = "proc" /\ w.pos < BatchLen(w.batch) /\ v.pos = w.pos + 1
                  \/ v.pc = "send" /\ w.pos = BatchLen(w.batch) /\ v.pos = w.pos
         [] w.pc = "send" ->
               /\ v.pc = "recv"
               /\ results' = Append(results, w.result[1])
         [] OTHER -> FALSE

C23_PoolState ==
    /\ BagCardinality(wk) = IF pc \in {"discover", "start", "failed", "fatal"}
                            THEN 0 ELSE maxWorkers
    /\ InProcessing >= 0
    /\ InProcessing <= maxWorkers
    /\ InProcessing = BagCardinality(
                         [w \in { v \in Workers : v.pc \in {"proc", "send"} }
                            |-> CopiesIn(w, wk)])

\* C23: exactly workerCount workers exist for the whole run; each holds at
\* most one batch at a time, processes its items one after another and
\* pulls its next batch only after it has pushed the result of the current
\* one, so that at most workerCount batches are in processing at a time.
C23_WorkerPool ==
    /\ []C23_PoolState
    /\ [][\A w \in Workers : \A v \in BagToSet(wk') : C23_WorkerStep(w, v)]_vars

\* both workers of a pool of two are processing a batch
C23_Witness ==
    /\ maxWorkers = 2
    /\ InProcessing = 2
    /\ \A w \in Workers : w.pc = "proc"

-----------------------------------------------------------------------------
\* the outcomes of a batch: the items that passed load, extract and copy,
\* and whether its insert call failed
InsertFailedFor(b) == \E call \in CallsFor(b) : call.err # None

\* the files a batch counts as processed and as errors, by its outcomes
ProcessedBy(b) ==
    IF InsertFailedFor(b) THEN 0 ELSE Len(SurvivorsOf(sent[b + 1]))

ErrorsBy(b) == BatchLen(sent[b + 1]) - ProcessedBy(b)

RECURSIVE SumProcessedBy(_)
SumProcessedBy(ids) ==
    IF ids = {} THEN 0
    ELSE LET b == CHOOSE x \in ids : TRUE
         IN  ProcessedBy(b) + SumProcessedBy(ids \ {b})

RECURSIVE SumErrorsBy(_)
SumErrorsBy(ids) ==
    IF ids = {} THEN 0
    ELSE LET b == CHOOSE x \in ids : TRUE
         IN  ErrorsBy(b) + SumErrorsBy(ids \ {b})

\* C24: the final totals (processed, errors, batches seen) are determined
\* by the outcomes of the items and of the insert calls alone, whatever the
\* order in which the workers' results reached the collector; with two
\* workers the results can reach it in another order than the dispatch
\* order.
C24_TotalsByOutcomes ==
    finalLog # << >> =>
       /\ finalLog[1].totalProcessed = SumProcessedBy(SentIds)
       /\ finalLog[1].totalErrors = SumErrorsBy(SentIds)
       /\ batchCount = Len(sent)

\* the result of the second batch is in the results channel ahead of the
\* result of the first, and the two results differ
C24_Witness ==
    /\ maxWorkers = 2
    /\ Len(results) = 2
    /\ results[1].BatchID = 1
    /\ results[2].BatchID = 0
    /\ results[1].ProcessedCount # results[2].ProcessedCount

-----------------------------------------------------------------------------
\* the image the features are computed on
Canonical(img) == PreprocessImage(img, ExtractSize).img

\* the share of the pixels of a one-colour image that a bin of a channel
\* with value v holds, by the rule "v is counted in bin floor(v / 16)"
ShareOfBin(b, v) == IF b = v \div 16 THEN F1 ELSE F0

\* C25: an 8-bit channel value v is counted in bin floor(v / 16), which is
\* in 0..15 (255 lands in bin 15); every pixel is counted once per channel,
\* so that the bins of a channel add up to all pixels; the histogram is
\* the 16 bins of R, then those of G, then those of B.
C25_HistogramBins ==
    /\ \A v \in 0..255 : Bin(v) \in 0..15 /\ Bin(v) = v \div 16
    /\ Bin(255) = 15
    /\ ExtractMade =>
          \A k \in 1..Len(images) :
             LET r == TheCall.out[k]
                 c == images[k].c
             IN  (~r.panic /\ PositiveArea(Canonical(images[k]))) =>
                    \A b \in 0..15 :
                       /\ r.features[b + 1] = ShareOfBin(b, c.r)
                       /\ r.features[b + 17] = ShareOfBin(b, c.g)
                       /\ r.features[b + 33] = ShareOfBin(b, c.b)

\* the histogram of the amber square was computed: R in bin 15, G in bin
\* 8, B in bin 1
C25_Witness ==
    /\ ExtractMade
    /\ images = << Img(32, 32, Amber) >>
    /\ TheCall.out[1].features[16] = F1
    /\ TheCall.out[1].features[17 + 8] = F1
    /\ TheCall.out[1].features[33 + 1] = F1

\* the mean of the squared grey value over all pixels of a one-colour
\* image: the squared grey value, summed over and divided by all pixels
MeanSquaredGray(img) ==
    IF GrayMilli(img.c) = 0 THEN F0
    ELSE [k |-> "pos", n |-> img.w * img.h, d |-> img.w * img.h,
          g |-> GrayMilli(img.c)]

\* C26: the energy component is the mean of the squared grey value over
\* every pixel of the canonical image, so that an image whose grey value is
\* 1.0 everywhere has energy 1.0; the uniformity component equals the
\* energy.
C26_EnergyIsMean ==
    ExtractMade =>
       \A k \in 1..Len(images) :
          LET r == TheCall.out[k]
          IN  (~r.panic /\ PositiveArea(Canonical(images[k]))) =>
                 /\ r.features[3 * HistBins + 2] = MeanSquaredGray(Canonical(images[k]))
                 /\ r.features[3 * HistBins + 3] = r.features[3 * HistBins + 2]

\* the cells of the grid whose columns (rows) hold column (row) p of a side
\* of `size` pixels
CellsHolding(p, size) == { g \in 0..(GridSize - 1) : p \in CellSpan(g, size) }

\* C27: the 4 x 4 grid covers the canonical image completely: every column
\* and every row of pixels belongs to exactly one cell column and cell row,
\* the last ones taking the remainder of the division by 4; the cell means
\* are emitted in row-major cell order, R, G, B per cell.
C27_GridCovers ==
    ExtractMade =>
       \A k \in 1..Len(images) :
          LET r == TheCall.out[k]
              canonical == Canonical(images[k])
          IN  (~r.panic /\ PositiveArea(canonical)) =>
                 /\ \A x \in 0..(canonical.w - 1) :
                       Cardinality(CellsHolding(x, canonical.w)) = 1
                 /\ \A y \in 0..(canonical.h - 1) :
                       Cardinality(CellsHolding(y, canonical.h)) = 1
                 /\ \A cell \in 0..(GridSize * GridSize - 1) :
                       /\ r.features[3 * HistBins + 4 + 3 * cell + 1] = FDiv(canonical.c.r, 255)
                       /\ r.features[3 * HistBins + 4 + 3 * cell + 2] = FDiv(canonical.c.g, 255)
                       /\ r.features[3 * HistBins + 4 + 3 * cell + 3] = FDiv(canonical.c.b, 255)

-----------------------------------------------------------------------------
\* runs with any -batch and -workers value
SpecAnyFlags == InitAnyFlags /\ [][Next]_vars

\* a BatchResult was produced for a batch holding position p of imageFiles
ResultProducedFor(p) ==
    \E n \in 1..Len(sent) :
       /\ sent[n].lo <= p /\ p < sent[n].hi
       /\ CopiesIn(BatchIdOf(sent[n]), produced) >= 1

\* C28: ProcessDataset returns nil only when a BatchResult has been
\* produced for every batch of the discovered files, for every -workers and
\* -batch value, 0 workers included.
C28_NilOnlyWhenAllProcessed ==
    pc \in {"returned", "exited"} =>
       \A p \in 0..(Len(imageFiles) - 1) : ResultProducedFor(p)

-----------------------------------------------------------------------------
(* The callers of the vector store: the server's upload and search         *)
(* handlers and the batch inserter.  Each uses the extractor that           *)
(* NewSimpleFeatureExtractor makes and the MilvusService made from the      *)
(* loaded configuration.                                                    *)

\* MILVUS_DIMENSION as the environment can hold it: unset, numbers, a
\* negative number, text that is no number, the empty string
EnvValues ==
    { << >>,
      << << "1", "2", "8" >> >>,
      << << "5", "1", "2" >> >>,
      << << "7", "6", "8" >> >>,
      << << "0" >> >>,
      << << "-", "1" >> >>,
      << << "a", "b", "c" >> >>,
      << << >> >> }

\* the decoded images of the requests and of the batches
RequestImages == { Img(32, 32, White), Img(2, 1, Red) }

\* the process before LoadConfig; the extractor's dimension is the one
\* NewSimpleFeatureExtractor sets, whatever the configuration
InitStore ==
    /\ env \in EnvValues
    /\ milvusConfig = << >>
    /\ storeCalls = << >>
    /\ responses = << >>
    /\ images = << >>
    /\ dimension = DefaultDimension
    /\ entries = << >>
    /\ batchSize = 1
    /\ maxWorkers = 1
    /\ faultsLeft = 0

InitServices == InitStore /\ InitRun

\* what the handlers leave alone: the batch pipeline but for the upload
\* directory, the collection and the faults left
handlerFrame ==
    << entries, batchSize, maxWorkers, pc, imageFiles, i, jobs, jobsClosed,
       results, resultsClosed, wg, wk, cpc, totalProcessed, totalErrors,
       batchCount, finalLog, sent, taken, produced, consumed, insertCalls,
       steps, images, dimension, made, env, milvusConfig >>

\* the requests and batches handled so far: every response, and every
\* store call of a search or of a batch
RequestsHandled ==
    Len(responses)
       + Cardinality({ n \in 1..Len(storeCalls) : storeCalls[n].from # "upload" })

\* cfg := config.LoadConfig(); services.NewMilvusService(&cfg.Milvus)
StartServices ==
    /\ milvusConfig = << >>
    /\ milvusConfig' = << LoadConfig(env) >>
    /\ UNCHANGED << pipelineVars, images, dimension, made, env, storeCalls, responses >>

\* a call of the store: dim is s.config.Dimension, the dimension of the
\* collection's vector field; ids are the image ids passed, lens the
\* lengths of the vectors passed
StoreCall(op, from, ids, imgs, vectors) ==
    [op |-> op, from |-> from, ids |-> ids, images |-> imgs,
     dim |-> milvusConfig[1].Dimension,
     lens |-> [n \in 1..Len(vectors) |-> Len(vectors[n])]]

\* the multipart form of an upload: whether it has an "image" part, the
\* extension of the file name, the size in bytes, what decoding gives
Upload(ext, size, content, img) ==
    [file |-> TRUE, ext |-> ext, size |-> size, content |-> content, img |-> img]

NoFile == [file |-> FALSE, ext |-> "", size |-> 0, content |-> None,
           img |-> Img(0, 0, Black)]

UploadRequests ==
    { NoFile,
      Upload(".gif", 1, "good", Img(2, 1, Red)),
      Upload(".gif", MaxFileSize + 1, "good", Img(2, 1, Red)),
      Upload(".jpg", MaxFileSize + 1, "good", Img(2, 1, Red)),
      Upload(".JPG", MaxFileSize, "good", Img(32, 32, White)),
      Upload(".bmp", 1, "good", Img(2, 1, Red)),
      Upload(".png", 1, "corrupt", Img(0, 0, Black)),
      Upload(".png", 1, "good", Img(0, 0, Red)) }

\* the images the requests and the batches decode to
ServedImages == RequestImages \cup { req.img : req \in UploadRequests }

\* featureExtractor := models.NewSimpleFeatureExtractor(): what the
\* ExtractFeatures of the extractor made there returns, image by image
ServiceFeatures ==
    [img \in ServedImages |-> ExtractFeaturesWith(img, DefaultDimension)]

\* the vectors of the images, when ExtractFeatures returns for each of them
Extractable(imgs) ==
    \A n \in 1..Len(imgs) :
       ~ServiceFeatures[imgs[n]].panic /\ ~ServiceFeatures[imgs[n]].err

VectorsOf(imgs) == [n \in 1..Len(imgs) |-> ServiceFeatures[imgs[n]].vector]

\* uuid.New().String() in the handler: a fresh id, named after the number
\* of the request; the ids of the batch path are the positive numbers
NewUploadID(k) == 0 - k

\* faults the file system or the backend can show during an upload
UploadOutcomes(budget) ==
    {"ok"} \cup (IF budget > 0
                 THEN {"open", "mkdir", "create", "copy", "insert", "flush"}
                 ELSE {})

\* utils.SaveUploadedFile: open the part, MkdirAll, os.Create, io.Copy; a
\* failed copy leaves the created file behind
SaveUploadedFile(id, ext, o) ==
    IF o \in {"open", "mkdir", "create"} THEN [err |-> TRUE, files |-> {}]
    ELSE IF o = "copy"
         THEN [err |-> TRUE,  files |-> {[id |-> id, ext |-> ext, complete |-> FALSE]}]
         ELSE [err |-> FALSE, files |-> {[id |-> id, ext |-> ext, complete |-> TRUE]}]

\* what a handler did: the response, the files it wrote, the store calls it
\* made and the ids they put into the collection, whether a fault struck
Handled(status, message, id, files, calls, stored, fault) ==
    [status |-> status, message |-> message, id |-> id, files |-> files,
     calls |-> calls, stored |-> stored, fault |-> fault]

\* the checks of UploadImage with the size checked before the extension
CheckUploadSizeFirst(req) ==
    IF ~req.file THEN "no file"
    ELSE IF req.size > MaxFileSize THEN "size"
    ELSE IF ~IsValidImageFormat(req.ext) THEN "format"
    ELSE None

\* the checks of UploadImage, in the handler's order: the "image" part, the
\* extension, the size; None when the request passes
CheckUpload(req) ==
    IF ~req.file THEN "no file"
    ELSE IF ~IsValidImageFormat(req.ext) THEN "format"
    ELSE IF req.size > MaxFileSize THEN "size"
    ELSE None

\* ImageHandler.UploadImage: the checks of the request, then
\* SaveUploadedFile, LoadImageFromFile, ExtractFeatures (a panic is turned
\* into a 500 by gin's recovery) and InsertVectors with the one id and vector
HandleUpload(req, id, o) ==
    IF CheckUpload(req) # None
    THEN Handled(400, CheckUpload(req), << >>, {}, << >>, {}, FALSE)
    ELSE LET saved == SaveUploadedFile(id, req.ext, o)
         IN  IF saved.err
             THEN Handled(500, "save", << >>, saved.files, << >>, {}, TRUE)
             ELSE IF ~LoadImageFromFile(req)
             THEN Handled(500, "load", << >>, saved.files, << >>, {}, FALSE)
             ELSE LET features == ServiceFeatures[req.img]
                  IN  IF features.panic
                      THEN Handled(500, "panic", << >>, saved.files, << >>, {}, FALSE)
                      ELSE IF features.err
                      THEN Handled(500, "extract", << >>, saved.files, << >>, {}, FALSE)
                      ELSE LET r == InsertVectors(<< id >>, << features.vector >>, o)
                               call == StoreCall("InsertVectors", "upload", << id >>,
                                                 << req.img >>, << features.vector >>)
                           IN  IF r.err # None
                               THEN Handled(500, "insert", << >>, saved.files,
                                            << call >>, r.stored, TRUE)
                               ELSE Handled(200, "ok", << id >>, saved.files,
                                            << call >>, r.stored, FALSE)

\* the response as the history keeps it
Response(handler, req, h) ==
    [handler |-> handler, request |-> req, status |-> h.status,
     message |-> h.message, id |-> h.id]

\* one upload request handled
UploadImage ==
    /\ milvusConfig # << >>
    /\ RequestsHandled < MaxRequests
    /\ \E req \in UploadRequests, o \in UploadOutcomes(faultsLeft) :
          LET h == HandleUpload(req, NewUploadID(Len(responses) + 1), o)
          IN  /\ o = "ok" \/ h.fault
              /\ faultsLeft' = IF h.fault THEN faultsLeft - 1 ELSE faultsLeft
              /\ storage' = storage \cup h.files
              /\ milvus' = milvus \cup h.stored
              /\ storeCalls' = storeCalls \o h.calls
              /\ responses' = Append(responses, Response("UploadImage", req, h))
    /\ UNCHANGED handlerFrame

\* ImageHandler.SearchImage: ExtractFeatures, then SearchSimilar with the
\* query vector
SearchImage ==
    /\ milvusConfig # << >>
    /\ RequestsHandled < MaxRequests
    /\ \E img \in RequestImages :
          /\ Extractable(<< img >>)
          /\ storeCalls' = Append(storeCalls,
                 StoreCall("SearchSimilar", "search", << >>, << img >>, VectorsOf(<< img >>)))
    /\ UNCHANGED << pipelineVars, images, dimension, made, env, milvusConfig, responses >>

\* BatchInserter.processBatch: ExtractFeatures for each image of the batch,
\* then InsertVectors with the ids and vectors collected
BatchInsert ==
    /\ milvusConfig # << >>
    /\ RequestsHandled < MaxRequests
    /\ \E imgs \in SeqsUpTo(RequestImages, 2) \ { << >> } :
          /\ Extractable(imgs)
          /\ storeCalls' = Append(storeCalls,
                 StoreCall("InsertVectors", "batch", [n \in 1..Len(imgs) |-> n],
                           imgs, VectorsOf(imgs)))
    /\ UNCHANGED << pipelineVars, images, dimension, made, env, milvusConfig, responses >>

\* the id parameters of the delete requests: none, an id of the
\* collection, an id the collection does not hold
DeleteRequests == { << >>, << 0 >> } \cup { << id >> : id \in milvus }

\* faults the backend can show during a delete
DeleteOutcomes(budget) == {"ok"} \cup (IF budget > 0 THEN {"delete"} ELSE {})

\* DeleteVector that also removes the files of the id
StorageAfterDeletePurging(files, id) == { f \in files : f.id # id }

\* the upload directory after DeleteImage: the handler touches no file
StorageAfterDelete(files, id) == files

\* MilvusService.DeleteVector: client.Delete with image_id == id
DeleteVector(ids, id, o) ==
    IF o = "delete" THEN [err |-> TRUE, ids |-> ids]
    ELSE [err |-> FALSE, ids |-> ids \ {id}]

\* ImageHandler.DeleteImage: an empty id is a bad request; otherwise the
\* vector of the id is deleted from the collection
DeleteImage ==
    /\ milvusConfig # << >>
    /\ RequestsHandled < MaxRequests
    /\ \E req \in DeleteRequests, o \in DeleteOutcomes(faultsLeft) :
          IF req = << >>
          THEN /\ o = "ok"
               /\ responses' = Append(responses,
                      Response("DeleteImage", req,
                               Handled(400, "no id", << >>, {}, << >>, {}, FALSE)))
               /\ UNCHANGED << milvus, storage, faultsLeft >>
          ELSE LET r == DeleteVector(milvus, req[1], o)
               IN  /\ milvus' = r.ids
                   /\ storage' = StorageAfterDelete(storage, req[1])
                   /\ faultsLeft' = IF r.err THEN faultsLeft - 1 ELSE faultsLeft
                   /\ responses' = Append(responses,
                          Response("DeleteImage", req,
                                   Handled(IF r.err THEN 500 ELSE 200,
                                           IF r.err THEN "delete" ELSE "ok",
                                           req, {}, << >>, {}, r.err)))
    /\ UNCHANGED << handlerFrame, storeCalls >>

\* the server and the batch inserter side by side on one upload directory
\* and one collection: MILVUS_DIMENSION unset, a dataset of one file
HandlerDataset == << File(".jpg", "good") >>

InitHandlers ==
    /\ env = << >>
    /\ milvusConfig = << >>
    /\ storeCalls = << >>
    /\ responses = << >>
    /\ images = << >>
    /\ dimension = DefaultDimension
    /\ entries = HandlerDataset
    /\ batchSize = 1
    /\ maxWorkers = 1
    /\ faultsLeft = MaxFaults
    /\ InitRun

NextHandlers ==
    \/ Next
    \/ StartServices
    \/ UploadImage
    \/ DeleteImage

SpecHandlers == InitHandlers /\ [][NextHandlers]_vars

NextServices ==
    \/ StartServices
    \/ UploadImage
    \/ SearchImage
    \/ BatchInsert

SpecServices == InitServices /\ [][NextServices]_vars

\* C29: every vector passed to the vector store by an insert (batch and
\* upload paths) or by a search has the length of the dimension the
\* collection is configured with, for every MILVUS_DIMENSION value the
\* loader accepts.
C29_VectorLengthIsDimension ==
    \A n \in 1..Len(storeCalls) :
       \A k \in 1..Len(storeCalls[n].lens) :
          storeCalls[n].lens[k] = storeCalls[n].dim

-----------------------------------------------------------------------------
\* the batch was processed: processBatch returned a BatchResult for it
Processed(batch) == CopiesIn(BatchIdOf(batch), produced) >= 1

\* the path has a complete canonical copy and its id is in the collection
StoredAndInserted(path) ==
    HasCopy(NewImageID(path)) /\ NewImageID(path) \in milvus

\* C30: in a run without I/O or backend faults, every discovered file that
\* decodes and extracts is stored and inserted once its batch is processed,
\* whichever extension discovery accepted it with (.jpg, .jpeg, .png, .bmp,
\* .tiff): the canonical copy succeeds for each of them.
C30_EveryExtensionStored ==
    faultsLeft = MaxFaults =>
       \A n \in 1..Len(sent) :
          Processed(sent[n]) =>
             \A path \in PathsOf(sent[n]) :
                LoadImageFromFile(entries[path]) => StoredAndInserted(path)

-----------------------------------------------------------------------------
\* the ids minted for the items of a batch
IdsOf(batch) == { NewImageID(path) : path \in PathsOf(batch) }

\* the ids of the batch for which canonical storage holds a file
StoredOf(batch) == { f.id : f \in { g \in storage : g.id \in IdsOf(batch) } }

\* the ids of the batch counted as processed: those handed to InsertVectors
CountedOf(batch) ==
    UNION { { call.ids[n] : n \in 1..Len(call.ids) } :
               call \in CallsFor(BatchIdOf(batch)) }

\* C31: an item whose canonical copy fails leaves no file in canonical
\* storage: as long as no insert has failed, the files in storage of a
\* processed batch are exactly those of its items counted as processed.
C31_FailedCopyLeavesNoFile ==
    (\A call \in InsertCalls : call.err = None) =>
       \A n \in 1..Len(sent) :
          Processed(sent[n]) => StoredOf(sent[n]) = CountedOf(sent[n])

-----------------------------------------------------------------------------
\* the ids passed to InsertVectors so far, by the batch path and by uploads
IdsPassedToInsert ==
    UNION { { call.ids[n] : n \in 1..Len(call.ids) } : call \in InsertCalls }
       \cup UNION { { storeCalls[k].ids[n] : n \in 1..Len(storeCalls[k].ids) } :
                      k \in { j \in 1..Len(storeCalls) : storeCalls[j].op = "InsertVectors" } }

\* every id passed to an insert and every id of the collection has its file
C32_IdsHaveFiles ==
    \A id \in IdsPassedToInsert \cup milvus : HasCopy(id)

\* the step is a DeleteImage request
DeleteStep ==
    /\ Len(responses') = Len(responses) + 1
    /\ responses'[Len(responses')].handler = "DeleteImage"

\* a delete changes no file and takes at most the given id out of the
\* collection
C32_DeleteFrame ==
    DeleteStep =>
       /\ storage' = storage
       /\ milvus' \subseteq milvus
       /\ \A id \in milvus \ milvus' : responses'[Len(responses')].request = << id >>

-----------------------------------------------------------------------------
\* the store calls that carry the id
CallsWith(id) ==
    { k \in 1..Len(storeCalls) :
         \E n \in 1..Len(storeCalls[k].ids) : storeCalls[k].ids[n] = id }

\* the response the checks of the request call for: none when it passes
Rejection(req) ==
    IF ~req.file THEN "no file"
    ELSE IF ToLower(req.ext) \notin SupportedImageTypes THEN "format"
    ELSE IF req.size > MaxFileSize THEN "size"
    ELSE None

\* C33: UploadImage answers a request without a file, with an unsupported
\* extension or with a size above MaxFileSize, checked in that order, with
\* a bad request, and then no file was written and no vector-store call
\* made; a successful upload made exactly one insert call, with the single
\* id it returns, and the file exists at id + extension.
C33_UploadChecks ==
    \A n \in 1..Len(responses) :
       LET resp == responses[n]
           id   == NewUploadID(n)
       IN  resp.handler = "UploadImage" =>
              /\ (Rejection(resp.request) # None) =
                    (resp.status = 400)
              /\ resp.status = 400 =>
                    /\ resp.message = Rejection(resp.request)
                    /\ ~ \E f \in storage : f.id = id
                    /\ CallsWith(id) = {}
                    /\ id \notin milvus
              /\ resp.status = 200 =>
                    /\ resp.id = << id >>
                    /\ Cardinality(CallsWith(id)) = 1
                    /\ \A k \in CallsWith(id) :
                          /\ storeCalls[k].op = "InsertVectors"
                          /\ storeCalls[k].ids = << id >>
                    /\ [id |-> id, ext |-> resp.request.ext, complete |-> TRUE] \in storage

\* an oversize file with an unsupported extension was rejected for its
\* extension, and an upload at the size limit succeeded
C33_Witness ==
    /\ \E n \in 1..Len(responses) :
          /\ responses[n].handler = "UploadImage"
          /\ responses[n].request.file
          /\ responses[n].request.ext = ".gif"
          /\ responses[n].request.size > MaxFileSize
          /\ responses[n].status = 400
          /\ responses[n].message = "format"
    /\ \E n \in 1..Len(responses) :
          /\ responses[n].handler = "UploadImage"
          /\ responses[n].request.size = MaxFileSize
          /\ responses[n].status = 200
          /\ responses[n].id = << NewUploadID(n) >>


====
